---- MODULE Spec2Model ----
(***************************************************************************)
(* Model of autocommenter: PythonExtractor (src/python_extractor.py), the  *)
(* documentation freshness protocol of extract / generate_doc, and         *)
(* AIDocumenter.normalize_left_strip.                                      *)
(*                                                                         *)
(* Text is a sequence of tokens.  In the extractor a token is a record     *)
(* [c, d]: c is a word, " " or "\n", and a SHA-256 hex digest is the one   *)
(* token [c |-> "sha256", d |-> <<x>>] where x is the ast.dump that was    *)
(* hashed (SHA-256 is taken to be injective on the dumps of the model).    *)
(* A file on disk is the tree ast.parse gives for it: a module body and a  *)
(* heap of ClassDef / FunctionDef nodes, each with a body of statements;   *)
(* node ids stand for Python object identity.                              *)
(***************************************************************************)
EXTENDS Integers, Sequences, FiniteSets, TLC

\* Bounds of the model: extract() invocations, files under root_directory,
\* lines of a generated text, and applications of normalize_left_strip to it.
MaxRuns == 2

NumFiles == 2

MaxLines == 2

MaxApplications == 2

VARIABLES
    disk,        \* file_path -> the file's content (valid flag and tree)
    documenter,  \* self.ai_documenter: "AIDocumenter" or an injected "stub"
    run,         \* number of extract() invocations started
    pc,          \* position in extract(): idle, parse, entity, write, done, raised
    fi,          \* index of file_path in python_files
    tree,        \* the in-memory ast of the current file (mutated in place)
    todo,        \* entities of extracted_content not yet visited, in order
    modified,    \* local variable modified of extract()
    log,         \* history of the current run: one record per step taken
    prev,        \* how the previous run ended and what its oracle calls gave
    before,      \* the files as they were when the current run started
    norm         \* a text under repeated normalize_left_strip (NormSpec)

vars ==
    <<disk, documenter, run, pc, fi, tree, todo, modified, log, prev, before, norm>>

-----------------------------------------------------------------------------
\* Tokens and strings

W(s) == [c |-> s, d |-> <<>>]

SP == W(" ")

NL == W("\n")

IsSpace(tok) == tok = SP \/ tok = NL

\* str.lstrip() / str.rstrip() / str.strip() on a token sequence
RECURSIVE LStrip(_)
LStrip(s) == IF s # <<>> /\ IsSpace(Head(s)) THEN LStrip(Tail(s)) ELSE s

RECURSIVE RStrip(_)
RStrip(s) ==
    IF s # <<>> /\ IsSpace(s[Len(s)]) THEN RStrip(SubSeq(s, 1, Len(s) - 1)) ELSE s

Strip(s) == LStrip(RStrip(s))

\* needle in hay  (substring test)
Contains(hay, needle) ==
    \E i \in 1..(Len(hay) - Len(needle) + 1) :
        SubSeq(hay, i, i + Len(needle) - 1) = needle

\* sep.join(parts)
RECURSIVE Join(_, _)
Join(parts, sep) ==
    IF Len(parts) = 0 THEN <<>>
    ELSE IF Len(parts) = 1 THEN parts[1]
    ELSE parts[1] \o sep \o Join(Tail(parts), sep)

\* s.split(sep) for a one-token separator: the list of pieces
RECURSIVE Split(_, _)
Split(s, sep) ==
    IF \A i \in 1..Len(s) : s[i] # sep THEN <<s>>
    ELSE LET k == CHOOSE i \in 1..Len(s) :
                      s[i] = sep /\ \A j \in 1..(i - 1) : s[j] # sep
         IN  <<SubSeq(s, 1, k - 1)>> \o Split(SubSeq(s, k + 1, Len(s)), sep)

\* self.template_message
template_message ==
    <<W("This"), SP, W("is"), SP, W("an"), SP, W("autogenerated"), SP,
      W("docstring")>>

-----------------------------------------------------------------------------
\* An optional value: None is <<>>, a present value x is <<x>>

None == <<>>

Some(x) == <<x>>

\* Python truthiness of an optional string: None and "" are falsy
Truthy(opt) == opt # None /\ opt[1] # <<>>

-----------------------------------------------------------------------------
\* The ast of a file.  A statement is [t, v, n]:
\*   t = "Expr": an expression statement holding the string constant v
\*   t = "Stmt": any other statement, n identifies its code
\*   t = "Def" : a ClassDef or FunctionDef, n is the id of the node
\* A tree is [body |-> the module's statements, node |-> id -> [kind, name, body]].

ExprStmt(text) == [t |-> "Expr", v |-> text, n |-> 0]

CodeStmt(k) == [t |-> "Stmt", v |-> <<>>, n |-> k]

DefStmt(id) == [t |-> "Def", v |-> <<>>, n |-> id]

Indent(line) ==
    IF \A i \in 1..Len(line) : line[i] = SP THEN Len(line)
    ELSE (CHOOSE i \in 1..Len(line) :
              line[i] # SP /\ \A j \in 1..(i - 1) : line[j] = SP) - 1

Min(S) == CHOOSE x \in S : \A y \in S : x <= y

RECURSIVE DropLeadingEmpty(_)
DropLeadingEmpty(lines) ==
    IF lines # <<>> /\ Head(lines) = <<>> THEN DropLeadingEmpty(Tail(lines))
    ELSE lines

RECURSIVE DropTrailingEmpty(_)
DropTrailingEmpty(lines) ==
    IF lines # <<>> /\ lines[Len(lines)] = <<>>
    THEN DropTrailingEmpty(SubSeq(lines, 1, Len(lines) - 1))
    ELSE lines

\* inspect.cleandoc, which ast.get_docstring applies (clean=True): the first
\* line is left-stripped, the common margin of the other lines is removed,
\* leading and trailing empty lines are dropped
cleandoc(text) ==
    LET lines   == Split(text, NL)
        rest    == {i \in 2..Len(lines) : LStrip(lines[i]) # <<>>}
        margin  == IF rest = {} THEN 0 ELSE Min({Indent(lines[i]) : i \in rest})
        cleaned == [i \in 1..Len(lines) |->
                       IF i = 1 THEN LStrip(lines[1])
                       ELSE IF Len(lines[i]) <= margin THEN <<>>
                       ELSE SubSeq(lines[i], margin + 1, Len(lines[i]))]
    IN  Join(DropLeadingEmpty(DropTrailingEmpty(cleaned)), <<NL>>)

\* PythonExtractor.get_docstring: None unless the first body statement is a
\* string constant
get_docstring(tr, id) ==
    LET body == tr.node[id].body
    IN  IF body # <<>> /\ body[1].t = "Expr" THEN Some(cleandoc(body[1].v))
        ELSE None

\* ast.dump(node): the node's fields and, recursively, its body; skip is the
\* number of leading body statements deleted from the copy before the dump
RECURSIVE dump(_, _, _)
dump(tr, id, skip) ==
    LET body == tr.node[id].body
    IN  [t    |-> tr.node[id].kind,
         s    |-> tr.node[id].name,
         v    |-> <<>>,
         n    |-> 0,
         body |-> [i \in 1..(Len(body) - skip) |->
                      LET st == body[i + skip]
                      IN  IF st.t = "Def" THEN dump(tr, st.n, 0)
                          ELSE [t |-> st.t, s |-> "", v |-> st.v, n |-> st.n,
                                body |-> <<>>]]]

\* hashlib.sha256(...).hexdigest(): one token that carries what was hashed
hexdigest(x) == <<[c |-> "sha256", d |-> <<x>>]>>

\* generate_func_hash as it would be if the documentation statement were
\* hashed with the rest (the del node.body[0] left out)
generate_func_hash_keeping_doc(tr, id, has_documentation) ==
    hexdigest(dump(tr, id, 0))

\* PythonExtractor.generate_func_hash
generate_func_hash(tr, id, has_documentation) ==
    hexdigest(dump(tr, id, IF has_documentation THEN 1 ELSE 0))

\* parse_doc as it would be with the "hash <hash>" line left out
parse_doc_without_hash(text, hash) ==
    Join(<<<<>>, text, <<>>, template_message, <<>>>>, <<NL>>)

\* PythonExtractor.parse_doc: os.linesep.join(["", text, "", template, "hash <hash>", ""])
parse_doc(text, hash) ==
    Join(<<<<>>, text, <<>>, template_message, <<W("hash"), SP>> \o hash, <<>>>>,
         <<NL>>)

\* PythonExtractor.set_docstring: node.body.insert(0, docstring_node)
set_docstring(tr, id, docstring) ==
    [tr EXCEPT !.node[id].body = <<ExprStmt(docstring)>> \o @]

\* PythonExtractor.update_docstring: node.body[0] = docstring_node
update_docstring(tr, id, docstring) ==
    [tr EXCEPT !.node[id].body[1] = ExprStmt(docstring)]

\* previous_hash as it would be if the first token were read, not the last
previous_hash_first_token(documentation) ==
    LET parts == Split(documentation, SP) IN Strip(parts[1])

\* documentation.split(' ')[-1].strip()
previous_hash(documentation) ==
    LET parts == Split(documentation, SP) IN Strip(parts[Len(parts)])

\* ids of the ClassDef / FunctionDef statements of a body, in order
DefsOf(body) ==
    LET idx == {i \in 1..Len(body) : body[i].t = "Def"}
        RECURSIVE pick(_)
        pick(i) == IF i > Len(body) THEN <<>>
                   ELSE IF i \in idx THEN <<body[i].n>> \o pick(i + 1)
                   ELSE pick(i + 1)
    IN  pick(1)

\* ast.walk(tree) restricted to ClassDef and FunctionDef nodes: breadth first
RECURSIVE walk(_, _)
walk(tr, queue) ==
    IF queue = <<>> THEN <<>>
    ELSE <<Head(queue)>> \o walk(tr, Tail(queue) \o DefsOf(tr.node[Head(queue)].body))

\* extract_classes_and_functions as it would be if only the statements of
\* the module body were looked at
extract_top_level_only(tr) == DefsOf(tr.body)

\* the keys of extracted_content, in insertion order
extract_classes_and_functions(tr) == walk(tr, DefsOf(tr.body))

-----------------------------------------------------------------------------
\* ParentClassFinder.  Its state is [current_class, parent_classes]; the id 0
\* stands for None.  A node is visited before its children, the children in
\* the order of the body (depth first).

NoParent == 0

RECURSIVE generic_visit(_, _, _)

\* visit_ClassDef as it would be if the class being visited when a class
\* definition is met were recorded as its parent
visit_ClassDef_recording_enclosing(tr, node, st) ==
    LET entered == [current_class  |-> node,
                    parent_classes |-> [st.parent_classes EXCEPT
                                           ![node] = st.current_class]]
        visited == generic_visit(tr, node, entered)
    IN  [visited EXCEPT !.current_class = NoParent]

\* visit_FunctionDef as it would be if no function were given a parent
visit_FunctionDef_without_parent(tr, node, st) ==
    generic_visit(tr, node, [st EXCEPT !.parent_classes[node] = NoParent])

\* ParentClassFinder.visit_ClassDef
visit_ClassDef(tr, node, st) ==
    LET entered == [current_class  |-> node,
                    parent_classes |-> [st.parent_classes EXCEPT ![node] = NoParent]]
        visited == generic_visit(tr, node, entered)
    IN  [visited EXCEPT !.current_class = NoParent]

\* ParentClassFinder.visit_FunctionDef
visit_FunctionDef(tr, node, st) ==
    LET recorded == IF st.current_class # NoParent
                    THEN [st EXCEPT !.parent_classes[node] = st.current_class]
                    ELSE [st EXCEPT !.parent_classes[node] = NoParent]
    IN  generic_visit(tr, node, recorded)

\* ast.NodeVisitor.visit: dispatch on the class of the node
visit(tr, node, st) ==
    IF tr.node[node].kind = "ClassDef" THEN visit_ClassDef(tr, node, st)
    ELSE visit_FunctionDef(tr, node, st)

\* ast.NodeVisitor.generic_visit: visit the children in order
generic_visit(tr, node, st) ==
    LET RECURSIVE each(_, _)
        each(children, s) ==
            IF children = <<>> THEN s
            ELSE each(Tail(children), visit(tr, Head(children), s))
    IN  each(DefsOf(tr.node[node].body), st)

\* finder.visit(tree) and data['parent'] = finder.parent_classes[node]: the
\* parent recorded for every entity of the tree
parent_classes(tr) ==
    LET RECURSIVE each(_, _)
        each(children, s) ==
            IF children = <<>> THEN s
            ELSE each(Tail(children), visit(tr, Head(children), s))
        start == [current_class  |-> NoParent,
                  parent_classes |-> [i \in 1..Len(tr.node) |-> NoParent]]
    IN  each(DefsOf(tr.body), start).parent_classes

-----------------------------------------------------------------------------
\* The freshness state of an entity (Missing / Stale / Fresh, or a docstring
\* somebody wrote: present and without the sentinel)

Fingerprint(tr, id) == generate_func_hash(tr, id, get_docstring(tr, id) # None)

FreshnessOf(tr, id) ==
    LET documentation == get_docstring(tr, id)
    IN  IF documentation = None THEN "Missing"
        ELSE IF ~Contains(documentation[1], template_message) THEN "Human"
        ELSE IF previous_hash(documentation[1]) = Fingerprint(tr, id) THEN "Fresh"
        ELSE "Stale"

-----------------------------------------------------------------------------
\* The files the model starts from

EmptyTree == [body |-> <<>>, node |-> <<>>]

Prose == <<W("Doc")>>

\* a digest stamped for code the entity no longer has
OldDigest ==
    hexdigest([t |-> "FunctionDef", s |-> "old", v |-> <<>>, n |-> 0, body |-> <<>>])

\* def f(): return 1
SingleFunction ==
    [body |-> <<DefStmt(1)>>,
     node |-> <<[kind |-> "FunctionDef", name |-> "f", body |-> <<CodeStmt(1)>>]>>]

\* def outer(): (def inner(): return 1); return inner
NestedFunction ==
    [body |-> <<DefStmt(1)>>,
     node |-> <<[kind |-> "FunctionDef", name |-> "outer",
                 body |-> <<DefStmt(2), CodeStmt(2)>>],
                [kind |-> "FunctionDef", name |-> "inner",
                 body |-> <<CodeStmt(1)>>]>>]

\* class A: (def m(self): return 1)
ClassWithMethod ==
    [body |-> <<DefStmt(1)>>,
     node |-> <<[kind |-> "ClassDef", name |-> "A", body |-> <<DefStmt(2)>>],
                [kind |-> "FunctionDef", name |-> "m",
                 body |-> <<CodeStmt(1)>>]>>]

Shapes == {SingleFunction, NestedFunction, ClassWithMethod}

\* class A: (class B: pass); (def m(self): return 1)
NestedClassThenMethod ==
    [body |-> <<DefStmt(1)>>,
     node |-> <<[kind |-> "ClassDef", name |-> "A",
                 body |-> <<DefStmt(2), DefStmt(3)>>],
                [kind |-> "ClassDef", name |-> "B", body |-> <<CodeStmt(3)>>],
                [kind |-> "FunctionDef", name |-> "m",
                 body |-> <<CodeStmt(1)>>]>>]

\* class A: (def m(self): (def g(): return 1); return g)
FunctionInMethod ==
    [body |-> <<DefStmt(1)>>,
     node |-> <<[kind |-> "ClassDef", name |-> "A", body |-> <<DefStmt(2)>>],
                [kind |-> "FunctionDef", name |-> "m",
                 body |-> <<DefStmt(3), CodeStmt(2)>>],
                [kind |-> "FunctionDef", name |-> "g",
                 body |-> <<CodeStmt(1)>>]>>]

\* deeper nestings, taken without documentation
DeepShapes == {NestedClassThenMethod, FunctionInMethod}

DocChoices == {"none", "empty", "human", "fresh", "stale"}

\* the tree with a docstring of the chosen sort written into node id
WithDoc(tr, id, choice) ==
    CASE choice = "none"  -> tr
      [] choice = "empty" -> set_docstring(tr, id, <<>>)
      [] choice = "human" -> set_docstring(tr, id, <<W("human"), SP, W("words")>>)
      [] choice = "fresh" ->
            set_docstring(tr, id, parse_doc(Prose, generate_func_hash(tr, id, FALSE)))
      [] choice = "stale" -> set_docstring(tr, id, parse_doc(Prose, OldDigest))

\* docstrings are written innermost entity first, so that "fresh" is fresh
RECURSIVE WithDocs(_, _, _)
WithDocs(tr, plan, id) ==
    IF id = 0 THEN tr ELSE WithDocs(WithDoc(tr, id, plan[id]), plan, id - 1)

\* a file that is not valid Python
Invalid == [valid |-> FALSE, tree |-> EmptyTree]

Sources ==
    {Invalid} \cup {[valid |-> TRUE, tree |-> sh] : sh \in DeepShapes} \cup
    UNION {{[valid |-> TRUE, tree |-> WithDocs(sh, plan, Len(sh.node))] :
               plan \in [1..Len(sh.node) -> DocChoices]} : sh \in Shapes}

\* the first file is any of Sources, the files after it are of these
LaterSources ==
    {Invalid,
     [valid |-> TRUE, tree |-> SingleFunction],
     [valid |-> TRUE, tree |-> WithDoc(SingleFunction, 1, "fresh")]}

-----------------------------------------------------------------------------
\* The documentation oracle

\* an exception leaves the call
Raised == [ok |-> FALSE, text |-> <<>>]

Returned(text) == [ok |-> TRUE, text |-> text]

\* what chain.invoke(...) may return
Responses == {Prose, <<>>, <<SP>>}

\* what an injected documenter may return
StubTexts == {Prose, <<>>}

\* AIDocumenter.__call__: the response of chain.invoke is stripped and passed
\* to normalize_left_strip without the required argument type, which is a
\* TypeError: no invocation returns a text
AIDocumenter_call(response) ==
    LET stripped == Strip(response)
        bound    == FALSE    \* normalize_left_strip(response): type is not bound
    IN  IF bound THEN Returned(stripped) ELSE Raised

\* the outcomes of self.ai_documenter(source, type, parent_source): of
\* AIDocumenter (chain.invoke fails or responds), or of an injected documenter
OracleOutcomes(impl) ==
    IF impl = "AIDocumenter"
    THEN {Raised} \cup {AIDocumenter_call(r) : r \in Responses}
    ELSE {Raised} \cup {Returned(r) : r \in StubTexts}

-----------------------------------------------------------------------------
\* AIDocumenter.normalize_left_strip(txt, type).  Here a text is a sequence
\* of one-character tokens; the result is the text returned, or ok = FALSE
\* when an exception leaves the call.

Chars(seq) == [i \in 1..Len(seq) |-> W(seq[i])]

Repeat(tok, k) == [i \in 1..k |-> tok]

Underlines == {Repeat(W("="), 4), Repeat(W("-"), 4)}

StartsWith(s, prefix) ==
    Len(s) >= Len(prefix) /\ SubSeq(s, 1, Len(prefix)) = prefix

\* str.find: the 0-based index of the first occurrence (the needle occurs)
Find(hay, needle) ==
    (CHOOSE i \in 1..(Len(hay) - Len(needle) + 1) :
         /\ SubSeq(hay, i, i + Len(needle) - 1) = needle
         /\ \A j \in 1..(i - 1) : SubSeq(hay, j, j + Len(needle) - 1) # needle) - 1

FunctionPrefix == Chars(<<"F", "u", "n", "c", "t", "i", "o", "n", " ">>)

\* the body of the first loop for line i; acc is [lines, line_strip, ok],
\* line_strip = -1 standing for None
FixLine(acc, i, type) ==
    LET line     == acc.lines[i]
        stripped == LStrip(line)
        hits     == {m \in Underlines : StartsWith(stripped, m)}
    IN  IF hits = {} \/ ~acc.ok THEN acc
        ELSE
        LET mixes == CHOOSE m \in hits : TRUE
            index == Find(line, mixes)
            ls    == IF acc.line_strip > 0 THEN Min({index, acc.line_strip})
                     ELSE index
        IN  IF i = 1 THEN [acc EXCEPT !.line_strip = ls]
            ELSE
            LET above    == acc.lines[i - 1]
                prefixed == type = "FUNCTIONS"
                            /\ Contains(line, Repeat(W("="), 4))
                            /\ ~Contains(Strip(above), <<SP>>)
                above2   == IF prefixed
                            THEN SubSeq(above, 1, Find(Strip(above), <<Strip(above)[1]>>))
                                 \o FunctionPrefix
                                 \o SubSeq(above, Find(Strip(above), <<Strip(above)[1]>>) + 1,
                                           Len(above))
                            ELSE above
                prev_line    == Strip(above2)
                current_line == Strip(line)
                line2    == IF Len(prev_line) > Len(current_line)
                            THEN SubSeq(line, 1, index)
                                 \o Repeat(current_line[1], Len(prev_line))
                            ELSE line
            IN  IF prefixed /\ Strip(above) = <<>>
                THEN [acc EXCEPT !.ok = FALSE]      \* prev_line[0]: IndexError
                ELSE [lines |-> [acc.lines EXCEPT ![i - 1] = above2, ![i] = line2],
                      line_strip |-> ls, ok |-> TRUE]

RECURSIVE FixLines(_, _, _)
FixLines(acc, i, type) ==
    IF i > Len(acc.lines) THEN acc ELSE FixLines(FixLine(acc, i, type), i + 1, type)

\* the body of the second loop: the margin is cut from a line that is not blank
CutMargin(line, line_strip) ==
    IF LStrip(line) = <<>> THEN line
    ELSE LET text_index    == Find(line, <<LStrip(line)[1]>>)
             max_stripping == Min({line_strip, text_index})
         IN  SubSeq(line, max_stripping + 1, Len(line))

normalize_left_strip(txt, type) ==
    LET fixed == FixLines([lines |-> Split(txt, NL), line_strip |-> -1, ok |-> TRUE],
                          1, type)
    IN  IF ~fixed.ok THEN Raised
        ELSE IF ~(fixed.line_strip > 0) THEN Returned(txt)
        ELSE Returned(Join([i \in 1..Len(fixed.lines) |->
                               CutMargin(fixed.lines[i], fixed.line_strip)],
                           <<NL>>))

-----------------------------------------------------------------------------
\* PythonExtractor.generate_doc on entity id with oracle outcome o (read only
\* when the oracle is called): the tree afterwards, the value returned,
\* whether the oracle was called, and whether an exception left the call

NeedsRegeneration(tr, id, documentation, hash) ==
    /\ Truthy(documentation)
    /\ Contains(documentation[1], template_message)
    /\ tr.node[id].kind = "FunctionDef"
    /\ previous_hash(documentation[1]) # hash

NeedsInsertion(documentation) == ~Truthy(documentation)

\* generate_doc as it would be if a failure of the oracle were swallowed and
\* the entity left as it is
generate_doc_swallowing_failure(tr, id, o) ==
    LET documentation == get_docstring(tr, id)
        hash   == generate_func_hash(tr, id, ~(documentation = None))
        regen  == NeedsRegeneration(tr, id, documentation, hash)
        insert == NeedsInsertion(documentation)
        text   == parse_doc(o.text, hash)
    IN  IF (regen \/ insert) /\ ~o.ok
        THEN [tree |-> tr, ret |-> FALSE, called |-> TRUE, raised |-> FALSE]
        ELSE IF regen
        THEN [tree |-> update_docstring(tr, id, text), ret |-> TRUE,
              called |-> TRUE, raised |-> FALSE]
        ELSE IF insert
        THEN [tree |-> set_docstring(tr, id, text), ret |-> TRUE,
              called |-> TRUE, raised |-> FALSE]
        ELSE [tree |-> tr, ret |-> FALSE, called |-> FALSE, raised |-> FALSE]

generate_doc(tr, id, o) ==
    LET documentation == get_docstring(tr, id)
        hash   == generate_func_hash(tr, id, ~(documentation = None))
        regen  == NeedsRegeneration(tr, id, documentation, hash)
        insert == NeedsInsertion(documentation)
        text   == parse_doc(o.text, hash)
    IN  IF (regen \/ insert) /\ ~o.ok
        THEN [tree |-> tr, ret |-> FALSE, called |-> TRUE, raised |-> TRUE]
        ELSE IF regen
        THEN [tree |-> update_docstring(tr, id, text), ret |-> TRUE,
              called |-> TRUE, raised |-> FALSE]
        ELSE IF insert
        THEN [tree |-> set_docstring(tr, id, text), ret |-> TRUE,
              called |-> TRUE, raised |-> FALSE]
        ELSE [tree |-> tr, ret |-> FALSE, called |-> FALSE, raised |-> FALSE]

-----------------------------------------------------------------------------
\* extract()

\* out: what the oracle call gave ("" when it was not called)
Event(op, id, pre, out, ret) ==
    [op |-> op, f |-> fi, id |-> id, pre |-> pre, out |-> out, ret |-> ret]

OutOf(r, o) ==
    IF ~r.called THEN ""
    ELSE IF ~o.ok THEN "raise"
    ELSE IF o.text = <<>> THEN "empty" ELSE "text"

Outs(events) == {events[i].out : i \in 1..Len(events)} \ {""}

\* no text is being normalized
NormIdle == [type |-> "", n |-> 0, cur |-> <<>>, last |-> <<>>, ok |-> TRUE]

Init ==
    /\ disk \in {d \in [1..NumFiles -> Sources] :
                    \A i \in 2..NumFiles : d[i] \in LaterSources}
    /\ documenter \in {"AIDocumenter", "stub"}
    /\ run = 0
    /\ pc = "idle"
    /\ fi = 0
    /\ tree = EmptyTree
    /\ todo = <<>>
    /\ modified = FALSE
    /\ log = <<>>
    /\ prev = [end |-> "none", outs |-> {}]
    /\ before = disk
    /\ norm = NormIdle

\* modified = self.generate_doc(func_node) or modified
Accumulate(ret, m) == ret \/ m

\* the write decision as it would be if every file were rewritten
ShouldWriteAlways(m) == TRUE

\* if modified: (unparse, format, write_file)
ShouldWrite(m) == m

\* extract() is invoked: python_files = find_python_files(root_directory)
StartRun ==
    /\ pc \in {"idle", "done", "raised"}
    /\ run < MaxRuns
    /\ run' = run + 1
    /\ fi' = 1
    /\ pc' = "parse"
    /\ tree' = EmptyTree
    /\ todo' = <<>>
    /\ modified' = FALSE
    /\ log' = <<>>
    /\ prev' = [end |-> pc, outs |-> Outs(log)]
    /\ before' = disk
    /\ UNCHANGED <<disk, documenter, norm>>

\* read_file and extract_classes_and_functions; ast.parse raises SyntaxError
\* for a file that is not valid Python, and the exception leaves extract()
ReadAndParse ==
    /\ pc = "parse"
    /\ IF disk[fi].valid
       THEN /\ tree' = disk[fi].tree
            /\ todo' = extract_classes_and_functions(disk[fi].tree)
            /\ modified' = FALSE
            /\ pc' = "entity"
            /\ log' = Append(log, Event("parse", 0, "", "", "ok"))
       ELSE /\ pc' = "raised"
            /\ log' = Append(log, Event("parse", 0, "", "", "raise"))
            /\ UNCHANGED <<tree, todo, modified>>
    /\ UNCHANGED <<disk, documenter, run, fi, prev, before, norm>>

\* one iteration of the loop over extracted_content.values():
\* modified = self.generate_doc(func_node) or modified
GenerateDoc ==
    /\ pc = "entity"
    /\ todo # <<>>
    /\ LET id == Head(todo)
           documentation == get_docstring(tree, id)
           calls == NeedsInsertion(documentation)
                    \/ NeedsRegeneration(tree, id, documentation,
                           generate_func_hash(tree, id, ~(documentation = None)))
       IN  \E o \in IF calls THEN OracleOutcomes(documenter) ELSE {Raised} :
             LET r == generate_doc(tree, id, o)
             IN  /\ tree' = r.tree
                 /\ log' = Append(log,
                        Event("generate_doc", id, FreshnessOf(tree, id), OutOf(r, o),
                              IF r.raised THEN "raise"
                              ELSE IF r.ret THEN "True" ELSE "False"))
                 /\ IF r.raised
                    THEN /\ pc' = "raised"
                         /\ UNCHANGED <<todo, modified>>
                    ELSE /\ pc' = "entity"
                         /\ todo' = Tail(todo)
                         /\ modified' = Accumulate(r.ret, modified)
    /\ UNCHANGED <<disk, documenter, run, fi, prev, before, norm>>

\* after the loop: if modified, ast.unparse, black.format_str and write_file
\* (either may raise); then the next file
FinishFile ==
    /\ pc = "entity"
    /\ todo = <<>>
    /\ \E ok \in (IF ShouldWrite(modified) THEN BOOLEAN ELSE {TRUE}) :
          IF ~ok
          THEN /\ pc' = "raised"
               /\ log' = Append(log, Event("write_file", 0, "", "", "raise"))
               /\ UNCHANGED <<disk, fi>>
          ELSE /\ disk' = IF ShouldWrite(modified)
                          THEN [disk EXCEPT ![fi] = [valid |-> TRUE, tree |-> tree]]
                          ELSE disk
               /\ log' = IF ShouldWrite(modified)
                         THEN Append(log, Event("write_file", 0, "", "", "ok"))
                         ELSE log
               /\ IF fi < NumFiles
                  THEN pc' = "parse" /\ fi' = fi + 1
                  ELSE pc' = "done" /\ fi' = fi
    /\ UNCHANGED <<documenter, run, tree, todo, modified, prev, before, norm>>

Next == StartRun \/ ReadAndParse \/ GenerateDoc \/ FinishFile

Spec == Init /\ [][Next]_vars

-----------------------------------------------------------------------------
\* normalize_left_strip applied again and again to a generated text

Indents == {0, 2, 4}

LineBodies ==
    {<<>>,
     Chars(<<"a", "b">>), Chars(<<"a", " ", "b">>),
     Chars(<<"a", "b", "c", "d", "e", "f">>),
     Repeat(W("="), 4), Repeat(W("="), 6), Repeat(W("-"), 4)}

TextLines == {Repeat(SP, k) \o b : k \in Indents, b \in LineBodies}

\* the generated texts: one to MaxLines lines
Texts ==
    UNION {{Join(ls, <<NL>>) : ls \in [1..k -> TextLines]} : k \in 1..MaxLines}

NormInit ==
    /\ disk = [i \in 1..NumFiles |-> Invalid]
    /\ documenter = "AIDocumenter"
    /\ run = 0
    /\ pc = "idle"
    /\ fi = 0
    /\ tree = EmptyTree
    /\ todo = <<>>
    /\ modified = FALSE
    /\ log = <<>>
    /\ prev = [end |-> "none", outs |-> {}]
    /\ before = disk
    /\ \E type \in {"FUNCTIONS", "CLASSES"}, txt \in Texts :
          norm = [type |-> type, n |-> 0, cur |-> txt, last |-> txt, ok |-> TRUE]

\* response = self.normalize_left_strip(response, type)
Normalize ==
    /\ norm.ok
    /\ norm.n < MaxApplications
    /\ LET r == normalize_left_strip(norm.cur, norm.type)
       IN  norm' = [norm EXCEPT !.n = @ + 1, !.last = norm.cur,
                                !.cur = IF r.ok THEN r.text ELSE norm.cur,
                                !.ok = r.ok]
    /\ UNCHANGED <<disk, documenter, run, pc, fi, tree, todo, modified, log, prev,
                   before>>

NormNext == Normalize

NormSpec == NormInit /\ [][NormNext]_vars

-----------------------------------------------------------------------------
\* Vocabulary of the properties

Last(seq) == seq[Len(seq)]

\* a generate_doc call is about to run on entity Head(todo)
AtEntity == pc = "entity" /\ todo # <<>>

\* extract_classes_and_functions has just returned for the file at hand
JustParsed == pc = "entity" /\ log # <<>> /\ Last(log).op = "parse"

GenEvents(f) == {i \in 1..Len(log) : log[i].op = "generate_doc" /\ log[i].f = f}

\* generate_doc returned True for an entity of file f in the current run
AnyTrue(f) == \E i \in GenEvents(f) : log[i].ret = "True"

\* write_file wrote file f in the current run
Written(f) ==
    \E i \in 1..Len(log) :
        log[i].op = "write_file" /\ log[i].f = f /\ log[i].ret = "ok"

\* the loop body of extract() ran to its end for file f in the current run
Completed(f) == run > 0 /\ (f < fi \/ (f = fi /\ pc = "done"))

\* the lines of a text
Lines(text) == {Split(text, NL)[i] : i \in 1..Len(Split(text, NL))}

-----------------------------------------------------------------------------
\* C1  No-op stability: when extract() runs right after a run that completed,
\* with an oracle that answers every call with the same text, no generate_doc
\* call of the second run returns True and write_file is not called.
NoOpStability ==
    (run >= 2 /\ prev.end = "done" /\ prev.outs \subseteq {"text"}
              /\ Outs(log) \subseteq {"text"})
        => \A i \in 1..Len(log) :
               /\ log[i].op # "write_file"
               /\ log[i].op = "generate_doc" => log[i].ret = "False"

\* C2  Human-doc preservation: generate_doc on an entity whose documentation
\* is present (not None, the empty string included) and lacks the sentinel
\* leaves the body unchanged, does not call the oracle and returns False
\* (stated of the calls that no exception leaves).
HumanDocPreservation ==
    [][(AtEntity /\ FreshnessOf(tree, Head(todo)) = "Human" /\ pc' # "raised")
          => /\ tree'.node[Head(todo)].body = tree.node[Head(todo)].body
             /\ Last(log').out = ""
             /\ Last(log').ret = "False"]_vars

\* C3  Stale detection: generate_doc on a stamped entity of either kind whose
\* stamped digest differs from its fingerprint regenerates the documentation
\* (the oracle answering): afterwards the stamped digest equals the
\* fingerprint and the file is marked modified.
StaleDetection ==
    [][(AtEntity /\ FreshnessOf(tree, Head(todo)) = "Stale"
                 /\ Last(log').out # "raise")
          => /\ FreshnessOf(tree', Head(todo)) = "Fresh"
             /\ modified' = TRUE]_vars

\* C4  Missing -> stamped: generate_doc on an entity with no documentation,
\* the oracle answering, returns True and leaves as first body statement a
\* string constant that contains the sentinel and the line "hash <digest>",
\* the digest being that of the entity's dump as it was.
MissingStamped ==
    [][(AtEntity /\ get_docstring(tree, Head(todo)) = None
                 /\ Last(log').out \in {"text", "empty"})
          => LET first == tree'.node[Head(todo)].body[1]
             IN  /\ first.t = "Expr"
                 /\ Contains(first.v, template_message)
                 /\ (<<W("hash"), SP>> \o hexdigest(dump(tree, Head(todo), 0)))
                        \in Lines(first.v)
                 /\ Last(log').ret = "True"
                 /\ modified' = TRUE]_vars

\* C4 witness: generate_doc has just returned True for an entity that had no
\* documentation, and the entity now starts with a stamped block.
MissingStampedWitness ==
    /\ pc = "entity"
    /\ log # <<>>
    /\ Last(log).op = "generate_doc"
    /\ Last(log).pre = "Missing"
    /\ Last(log).ret = "True"
    /\ Contains(tree.node[Last(log).id].body[1].v, template_message)

\* C5  The oracle is called only for a Missing or a Stale entity, and for a
\* Fresh entity it is not called and generate_doc returns False.
OracleOnlyWhenMissingOrStale ==
    \A i \in 1..Len(log) :
        log[i].op = "generate_doc" =>
            /\ log[i].out # "" => log[i].pre \in {"Missing", "Stale"}
            /\ log[i].pre = "Fresh" => (log[i].out = "" /\ log[i].ret = "False")

\* the documentation texts tried on an entity
DocTexts == {<<>>, <<SP>>, <<W("human"), SP, W("words")>>, parse_doc(Prose, OldDigest)}

\* the entity with a documentation statement put first
AddDoc(tr, id, text) == [tr EXCEPT !.node[id].body = <<ExprStmt(text)>> \o @]

\* C6  Fingerprint stability: an entity without documentation has the same
\* digest as the entity with a documentation statement put first, whatever
\* its text (the empty text included); and an entity that generate_doc has
\* just documented has the digest it had in the file.
FingerprintStability ==
    pc = "entity" =>
        /\ \A id \in 1..Len(tree.node) :
               get_docstring(tree, id) = None =>
                   \A text \in DocTexts :
                       Fingerprint(AddDoc(tree, id, text), id) = Fingerprint(tree, id)
        /\ (log # <<>> /\ Last(log).op = "generate_doc"
                       /\ Last(log).pre = "Missing" /\ Last(log).ret = "True")
               => Fingerprint(tree, Last(log).id)
                      = Fingerprint(disk[fi].tree, Last(log).id)

\* C6 witness: generate_doc has just put documentation into an entity that had
\* none and another entity of the tree still has none.
FingerprintStabilityWitness ==
    /\ pc = "entity"
    /\ log # <<>>
    /\ Last(log).op = "generate_doc"
    /\ Last(log).pre = "Missing"
    /\ Last(log).ret = "True"
    /\ get_docstring(disk[fi].tree, Last(log).id) = None
    /\ get_docstring(tree, Last(log).id) # None
    /\ \E id \in 1..Len(tree.node) : get_docstring(tree, id) = None

\* C7 as claimed: when a run has ended, a file has been written if and only if
\* generate_doc returned True for one of its entities (runs in which
\* formatting or writing raised are left aside).
WrittenIffModified ==
    (pc \in {"done", "raised"} /\ (log # <<>> => Last(log).op # "write_file"
                                                   \/ Last(log).ret = "ok"))
        => \A f \in 1..NumFiles : Written(f) <=> AnyTrue(f)

\* C7 as amended: a file is written only if generate_doc returned True for
\* one of its entities; when the loop body of extract() ran to its end for
\* the file it is written exactly if one did; and a file none of whose
\* entities was modified is as it was when the run started.
WrittenOnlyIfModified ==
    \A f \in 1..NumFiles :
        /\ Written(f) => AnyTrue(f)
        /\ Completed(f) => (Written(f) <=> AnyTrue(f))
        /\ (run > 0 /\ ~AnyTrue(f)) => disk[f] = before[f]
        /\ ~Written(f) => disk[f] = before[f]

\* C7 witness: a run has ended in which one file was written after one of
\* its entities was modified and another file was left alone.
WrittenOnlyIfModifiedWitness ==
    /\ pc = "done"
    /\ \E f, g \in 1..NumFiles :
          /\ Written(f) /\ AnyTrue(f) /\ disk[f] # before[f]
          /\ Completed(g) /\ ~Written(g) /\ GenEvents(g) # {}

\* C8  Per-file failure isolation: a failure in one file does not end the
\* run while files remain to be processed.
FailureIsolation == ~(pc = "raised" /\ fi < NumFiles)

\* C9  An empty text from the oracle is a failure that is propagated: the
\* generate_doc call that received it does not return, and no stamped block
\* with empty prose is put into the entity.
EmptyOutputPropagated ==
    \A i \in 1..Len(log) :
        (log[i].op = "generate_doc" /\ log[i].out = "empty") => log[i].ret = "raise"

\* C10  Idempotence of normalization: a second application of
\* normalize_left_strip (same kind) returns the text the first one returned.
NormalizeIdempotent ==
    (norm.n = 2 /\ norm.ok) => norm.cur = norm.last

\* the prose texts tried in a stamped block: one word, nothing, two lines
\* with a margin, a trailing space, the sentinel itself, a "hash" line
RoundTripProse ==
    {Prose, <<>>,
     <<W("a"), SP, W("b"), NL, SP, SP, W("c")>>,
     <<W("Doc"), SP>>,
     template_message,
     <<W("hash"), SP, W("x")>>}

\* C11  Stamped-block round trip: for every prose P and every digest D of an
\* entity of the first file as a run has parsed it, the lines of parse_doc(P, D)
\* are an empty line, the lines of P, an empty line, the sentinel, "hash D"
\* and an empty line; and the block read back as the entity's documentation
\* contains the sentinel and its last space-separated token, stripped, is D.
\* The same holds of the block that generate_doc has just put into an entity.
StampedBlockRoundTrip ==
    pc = "entity" =>
        /\ (JustParsed /\ fi = 1) =>
               \A id \in 1..Len(tree.node) : \A P \in RoundTripProse :
               LET D     == Fingerprint(tree, id)
                   block == parse_doc(P, D)
                   read  == get_docstring(AddDoc(tree, id, block), id)
               IN  /\ Split(block, NL)
                        = <<<<>>>> \o Split(P, NL)
                              \o <<<<>>, template_message, <<W("hash"), SP>> \o D, <<>>>>
                   /\ read # None
                   /\ Contains(read[1], template_message)
                   /\ previous_hash(read[1]) = D
        /\ (log # <<>> /\ Last(log).op = "generate_doc" /\ Last(log).ret = "True")
               => LET read == get_docstring(tree, Last(log).id)
                  IN  /\ read # None
                      /\ Contains(read[1], template_message)
                      /\ previous_hash(read[1])
                            = generate_func_hash(disk[fi].tree, Last(log).id,
                                  get_docstring(disk[fi].tree, Last(log).id) # None)

\* C11 witness: generate_doc has just replaced a stale block, and the digest
\* read back from the new block is the entity's digest, not the old one.
StampedBlockRoundTripWitness ==
    /\ pc = "entity"
    /\ log # <<>>
    /\ Last(log).op = "generate_doc"
    /\ Last(log).pre = "Stale"
    /\ Last(log).ret = "True"
    /\ previous_hash(get_docstring(disk[fi].tree, Last(log).id)[1]) = OldDigest
    /\ previous_hash(get_docstring(tree, Last(log).id)[1])
          = Fingerprint(tree, Last(log).id)

\* the body has a documentation statement: its first statement is a string
HasDocStatement(body) == body # <<>> /\ body[1].t = "Expr"

\* C12  Splice frame: a generate_doc call that regenerates a Stale entity
\* replaces body[0] and leaves the length of the body and every other
\* statement as they were; a call that inserts puts exactly one statement at
\* index 0, leaves the former statements as they were and in order, and
\* happens only for a body with no documentation statement.
SpliceFrame ==
    [][(AtEntity /\ Last(log').op = "generate_doc" /\ Last(log').ret = "True")
          => LET body  == tree.node[Head(todo)].body
                 body2 == tree'.node[Head(todo)].body
             IN  /\ \A id \in 1..Len(tree.node) :
                        id # Head(todo) => tree'.node[id] = tree.node[id]
                 /\ tree'.body = tree.body
                 /\ IF FreshnessOf(tree, Head(todo)) = "Stale"
                    THEN /\ Len(body2) = Len(body)
                         /\ \A k \in 2..Len(body) : body2[k] = body[k]
                         /\ body2[1] # body[1]
                    ELSE /\ Len(body2) = Len(body) + 1
                         /\ Tail(body2) = body
                         /\ ~HasDocStatement(body)]_vars

-----------------------------------------------------------------------------
\* Lexical nesting in a tree, and the parents recorded for the file at hand

\* the node whose body holds the definition of id; NoParent for a definition
\* in the module body
Encloser(tr, id) ==
    IF \E j \in 1..Len(tr.node) : id \in {DefsOf(tr.node[j].body)[k] :
                                            k \in 1..Len(DefsOf(tr.node[j].body))}
    THEN CHOOSE j \in 1..Len(tr.node) :
             id \in {DefsOf(tr.node[j].body)[k] :
                        k \in 1..Len(DefsOf(tr.node[j].body))}
    ELSE NoParent

IsClass(tr, id) == tr.node[id].kind = "ClassDef"

IsFunction(tr, id) == tr.node[id].kind = "FunctionDef"

\* the nearest class whose body, at any depth, holds the definition of id
RECURSIVE NearestClass(_, _)
NearestClass(tr, id) ==
    LET e == Encloser(tr, id)
    IN  IF e = NoParent THEN NoParent
        ELSE IF IsClass(tr, e) THEN e
        ELSE NearestClass(tr, e)

\* id is defined directly in the body of a class
DirectlyInClass(tr, id) ==
    Encloser(tr, id) # NoParent /\ IsClass(tr, Encloser(tr, id))

\* id is defined, at any depth, inside node c
RECURSIVE Inside(_, _, _)
Inside(tr, id, c) ==
    LET e == Encloser(tr, id)
    IN  e # NoParent /\ (e = c \/ Inside(tr, e, c))

\* the entities of the file being processed and the parents recorded for them
Parsed == disk[fi].tree

Entities == 1..Len(Parsed.node)

RecordedParent(id) == parent_classes(Parsed)[id]

\* C13  For every function entity at any nesting depth the recorded parent
\* is the nearest lexically enclosing class, or none when no class encloses
\* it (a method defined after a nested class included).
FunctionParentIsNearestClass ==
    JustParsed =>
        \A id \in Entities :
            IsFunction(Parsed, id) => RecordedParent(id) = NearestClass(Parsed, id)

ParentOnlyIfDirectlyInClass ==
    JustParsed =>
        \A id \in Entities :
            RecordedParent(id) # NoParent => DirectlyInClass(Parsed, id)

\* C15 as amended: an entity has a recorded parent only if it is a function
\* inside a class, directly or through enclosing functions, and the parent is
\* then the nearest enclosing class; a function with no enclosing class has
\* none; and a function whose nearest enclosing class holds no other class
\* has that class as parent, a function defined inside a method included.
ParentOnlyIfInsideClass ==
    JustParsed =>
        \A id \in Entities :
            /\ RecordedParent(id) # NoParent
                  => /\ IsFunction(Parsed, id)
                     /\ RecordedParent(id) = NearestClass(Parsed, id)
            /\ (IsFunction(Parsed, id) /\ NearestClass(Parsed, id) # NoParent
                  /\ \A c \in Entities :
                         IsClass(Parsed, c) => ~Inside(Parsed, c, NearestClass(Parsed, id)))
                  => RecordedParent(id) = NearestClass(Parsed, id)

\* C15 witness: the file at hand has a function defined inside a method, and
\* its recorded parent is the class of the method.
ParentOnlyIfInsideClassWitness ==
    /\ JustParsed
    /\ \E id \in Entities :
          /\ IsFunction(Parsed, id)
          /\ ~DirectlyInClass(Parsed, id)
          /\ NearestClass(Parsed, id) # NoParent
          /\ RecordedParent(id) = NearestClass(Parsed, id)

-----------------------------------------------------------------------------
\* the positions in the log of the write_file calls (those that raised
\* included)
WriteEvents == {i \in 1..Len(log) : log[i].op = "write_file"}

\* C16  Within the processing of one file write_file is called at most once,
\* and only after generate_doc has run, once, on every entity of the file; no
\* step of that file follows the write, and every step of a later file
\* follows it.
WriteAfterAllEntities ==
    \A i \in WriteEvents :
        LET f    == log[i].f
            gens == {j \in GenEvents(f) : j < i}
        IN  /\ \A j \in WriteEvents : log[j].f = f => j = i
            /\ {log[j].id : j \in gens} = 1..Len(before[f].tree.node)
            /\ Cardinality(gens) = Len(before[f].tree.node)
            /\ \A j \in gens : log[j].ret # "raise"
            /\ \A j \in 1..Len(log) :
                   /\ log[j].f = f => j <= i
                   /\ log[j].f > f => j > i
                   /\ log[j].f < f => j < i

\* C16 witness: a run has ended in which a file with more than one entity
\* was written and the file after it was written too.
WriteAfterAllEntitiesWitness ==
    /\ pc = "done"
    /\ \E f \in 1..(NumFiles - 1) :
          /\ Written(f) /\ Written(f + 1)
          /\ Len(before[f].tree.node) > 1
          /\ Cardinality(GenEvents(f)) > 1

\* C17  When the oracle call fails for an entity of a file, the file is not
\* written and is as it was when the run started, also when generate_doc had
\* returned True for earlier entities of the file.
OracleFailureLeavesFile ==
    \A i \in 1..Len(log) :
        (log[i].op = "generate_doc" /\ log[i].out = "raise")
            => /\ ~Written(log[i].f)
               /\ \A j \in WriteEvents : log[j].f # log[i].f
               /\ disk[log[i].f] = before[log[i].f]

\* C17 witness: the oracle has failed for an entity after generate_doc had
\* changed an earlier entity of the file in the in-memory tree, and the file
\* is as it was.
OracleFailureLeavesFileWitness ==
    /\ pc = "raised"
    /\ Last(log).op = "generate_doc"
    /\ Last(log).out = "raise"
    /\ AnyTrue(fi)
    /\ tree # disk[fi].tree
    /\ disk[fi] = before[fi]

-----------------------------------------------------------------------------
\* a heading-underline row: "====" or "----" after leading whitespace
IsUnderline(line) == \E m \in Underlines : StartsWith(LStrip(line), m)

\* a line of heading text: not blank and not itself an underline row
IsHeading(line) == Strip(line) # <<>> /\ ~IsUnderline(line)

\* C18  After normalize_left_strip every heading-underline row under a line
\* of heading text has the stripped length of that line, whether the
\* underline given was shorter or longer than the heading.
UnderlineMatchesHeading ==
    (norm.n >= 1 /\ norm.ok) =>
        LET lines == Split(norm.cur, NL)
        IN  \A i \in 2..Len(lines) :
                (IsUnderline(lines[i]) /\ IsHeading(lines[i - 1]))
                    => Len(Strip(lines[i])) = Len(Strip(lines[i - 1]))

-----------------------------------------------------------------------------
\* the function entities of file f for which generate_doc, in the current
\* run, generated or regenerated documentation with a text of the oracle
Documented(f) ==
    {log[i].id : i \in {j \in GenEvents(f) :
                          /\ log[j].ret = "True"
                          /\ log[j].pre \in {"Missing", "Stale"}
                          /\ IsFunction(before[f].tree, log[j].id)}}

\* C19  End-of-run hash coherence: when the entity loop of a file has ended,
\* every function entity documented in this run carries a stamped digest
\* equal to generate_func_hash of the entity in the tree that is serialized,
\* also when a function nested in it was documented later in the run.
EndOfRunHashCoherence ==
    (pc = "entity" /\ todo = <<>>) =>
        \A id \in Documented(fi) :
            previous_hash(get_docstring(tree, id)[1]) = Fingerprint(tree, id)

-----------------------------------------------------------------------------
\* every file was valid Python when the run started
AllParsable == \A f \in 1..NumFiles : before[f].valid

\* C20  With AIDocumenter every invocation of __call__ ends in an error
\* before a text is returned; so no oracle call returns, generate_doc never
\* returns True and no file is written; and a run (over files that parse)
\* either ends having found every entity Fresh or human-documented, or is
\* aborted at the first Missing or Stale entity.
AIDocumenterNeverReturns ==
    (documenter = "AIDocumenter" /\ AllParsable) =>
        /\ \A r \in Responses : AIDocumenter_call(r) = Raised
        /\ \A i \in 1..Len(log) :
               /\ log[i].out \in {"", "raise"}
               /\ log[i].ret # "True"
               /\ log[i].op # "write_file"
        /\ disk = before
        /\ pc = "done" =>
               \A f \in 1..NumFiles : \A id \in 1..Len(before[f].tree.node) :
                   FreshnessOf(before[f].tree, id) \in {"Fresh", "Human"}
        /\ pc = "raised" =>
               /\ Last(log).op = "generate_doc"
               /\ Last(log).pre \in {"Missing", "Stale"}
               /\ \A i \in GenEvents(fi) :
                      i < Len(log) => log[i].pre \in {"Fresh", "Human"}

====
